---- MODULE Spec2Model ----
(***************************************************************************)
(* rostd::printx -- the format string transformer of printx.hpp.           *)
(*                                                                         *)
(* build_fmt<Fmt, Args...>() runs transformer::transform twice over the    *)
(* same template and the same specifier array: once through a              *)
(* counting_transformer (count_size) and once through an                   *)
(* appending_transformer that writes into a buffer of count + 1 bytes,     *)
(* and then hands the status to check_error.  The model follows the two    *)
(* passes one loop iteration at a time.                                    *)
(*                                                                         *)
(* Characters are one-character strings, a template is a sequence of       *)
(* them, and src is the 0-based offset of the read pointer in the          *)
(* template (src = Len(tmpl) is the terminator).  idx is the 0-based       *)
(* offset of spec_array in the specifier array; idx = Len(args) is the     *)
(* terminating empty specifier{}.                                          *)
(***************************************************************************)
EXTENDS Integers, Sequences, FiniteSets, TLC

VARIABLES tmpl, args, phase, pc, src, idx, field, i, st, count, buf, outpos, cstatus, result

vars == <<tmpl, args, phase, pc, src, idx, field, i, st, count, buf, outpos, cstatus, result>>

-----------------------------------------------------------------------------
(* Bounds of the explored inputs *)

MaxLen == 3

MaxArgs == 2

-----------------------------------------------------------------------------
(* detail::traits<T>: the conversion spec and the flags of each type *)

promotes_to_int == "promotes_to_int"

prints_as_pointer == "prints_as_pointer"

forbid_precision == "forbid_precision"

record_position == "record_position"

Types ==
  { "bool", "char", "signed char", "unsigned char", "short", "unsigned short",
    "int", "unsigned int", "long", "unsigned long", "long long",
    "unsigned long long", "float", "double", "long double", "nullptr_t",
    "int*", "char*", "char const*", "c_str", "container_of_char" }

traits_spec(T) ==
  CASE T = "bool"               -> <<"d">>
    [] T = "char"               -> <<"c">>
    [] T = "signed char"        -> <<"h", "h", "d">>
    [] T = "unsigned char"      -> <<"h", "h", "u">>
    [] T = "short"              -> <<"h", "d">>
    [] T = "unsigned short"     -> <<"h", "u">>
    [] T = "int"                -> <<"d">>
    [] T = "unsigned int"       -> <<"u">>
    [] T = "long"               -> <<"l", "d">>
    [] T = "unsigned long"      -> <<"l", "u">>
    [] T = "long long"          -> <<"l", "l", "d">>
    [] T = "unsigned long long" -> <<"l", "l", "u">>
    [] T = "float"              -> <<"g">>
    [] T = "double"             -> <<"g">>
    [] T = "long double"        -> <<"L", "g">>
    [] T = "nullptr_t"          -> <<"p">>
    [] T = "int*"               -> <<"p">>
    [] T = "char*"              -> <<"s">>
    [] T = "char const*"        -> <<"s">>
    [] T = "c_str"              -> <<"s">>
    [] T = "container_of_char"  -> <<".", "*", "s">>

flags(T) ==
  CASE T \in { "bool", "char", "signed char", "unsigned char", "short",
               "unsigned short", "int", "unsigned int" } -> {promotes_to_int}
    [] T \in { "long", "unsigned long", "long long", "unsigned long long",
               "float", "double", "long double" }        -> {}
    [] T = "nullptr_t"                                   -> {prints_as_pointer}
    [] T = "int*"                       -> {prints_as_pointer, record_position}
    [] T \in { "char*", "char const*" }                  -> {prints_as_pointer}
    [] T = "c_str"                                       -> {}
    [] T = "container_of_char"                           -> {forbid_precision}

-----------------------------------------------------------------------------
(* enum class status, and check_error *)

correct == "correct"

conversion_lacks_type == "conversion_lacks_type"

field_precision_needs_int == "field_precision_needs_int"

field_precision_not_allowed == "field_precision_not_allowed"

field_width_needs_int == "field_width_needs_int"

format_expects_char == "format_expects_char"

format_expects_int_ptr == "format_expects_int_ptr"

format_expects_ptr == "format_expects_ptr"

format_invalid_type == "format_invalid_type"

format_not_enough_args == "format_not_enough_args"

format_spurious_percent == "format_spurious_percent"

format_too_many_args == "format_too_many_args"

status ==
  { correct, conversion_lacks_type, field_precision_needs_int,
    field_precision_not_allowed, field_width_needs_int, format_expects_char,
    format_expects_int_ptr, format_expects_ptr, format_invalid_type,
    format_not_enough_args, format_spurious_percent, format_too_many_args }

check_error_quiet(s) == ""

\* The message of a status; "" stands for the nullptr returned for correct.
check_error(s) ==
  CASE s = correct                     -> ""
    [] s = conversion_lacks_type       -> "conversion lacks type at end of format"
    [] s = field_precision_needs_int   -> "field precision specifier '.*' expects int"
    [] s = field_precision_not_allowed -> "field precision specifier not allowed for type"
    [] s = field_width_needs_int       -> "field width specifier '*' expects int"
    [] s = format_expects_char         -> "format %c expects argument of type char"
    [] s = format_expects_int_ptr      -> "format %n expects argument of type int*"
    [] s = format_expects_ptr          -> "format %p expects argument of pointer type"
    [] s = format_invalid_type         -> "format expects argument of different type"
    [] s = format_not_enough_args      -> "not enough arguments for format"
    [] s = format_spurious_percent     -> "spurious trailing '%' in format"
    [] s = format_too_many_args        -> "too many arguments for format"

\* No status yet: the pass is still running.
none == "none"

-----------------------------------------------------------------------------
(* transformer::specifier_class *)

specifier_class_s_as_pointer(ch) ==
  CASE ch \in {"c", "d", "i", "u", "o", "x", "X"}        -> "integer"
    [] ch \in {"f", "F", "e", "E", "g", "G", "a", "A"}   -> "floating_point"
    [] ch \in {"s", "p", "n"}                            -> "pointer"
    [] OTHER                                             -> "invalid"

specifier_class(ch) ==
  CASE ch = "s"                                          -> "string"
    [] ch \in {"c", "d", "i", "u", "o", "x", "X"}        -> "integer"
    [] ch \in {"f", "F", "e", "E", "g", "G", "a", "A"}   -> "floating_point"
    [] ch \in {"p", "n"}                                 -> "pointer"
    [] OTHER                                             -> "invalid"

-----------------------------------------------------------------------------
(* Reading the template and the specifier array *)

NUL == "NUL"

\* *ptr for the pointer at offset p of the template.
Deref(p) == IF p < Len(tmpl) THEN tmpl[p + 1] ELSE NUL

at_end_early(p) == Deref(p + 1) = NUL

at_end_never(p) == FALSE

at_end(p) == Deref(p) = NUL

specifier_bool_always(k) == TRUE

\* specifier::operator bool of the entry at offset k: false for the
\* terminating specifier{} only.
specifier_bool(k) == k < Len(args)

spec_of(k) == traits_spec(args[k + 1])

flags_of(k) == flags(args[k + 1])

FlagChars_no_minus == {"+", " ", "#", "0"}

FlagChars == {"-", "+", " ", "#", "0"}

DigitChars == {"0", "1", "2", "3", "4", "5", "6", "7", "8", "9"}

Last(sp) == sp[Len(sp)]

SubSpecifier_whole(sp) == sp

\* "Sub-specifier is all but the last char of the specifier": the characters
\* appended by  for (auto next = p + 1; *next; ++next) append(*p++);
SubSpecifier(sp) == SubSeq(sp, 1, Len(sp) - 1)

deduced_letter_only(sp) == <<Last(sp)>>

\* The characters appended for '?':  for (auto p = spec; *p; append(*p++)) {}
deduced(sp) == sp

\* cl != *p, with p left on the last character of the spec
class_differs(ch, sp) == specifier_class(ch) # specifier_class(Last(sp))

\* The capability tests of %c, %n and %p
lacks_char(fl) == promotes_to_int \notin fl

lacks_int_ptr_any_pointer(fl) == prints_as_pointer \notin fl

lacks_int_ptr(fl) == record_position \notin fl

lacks_ptr(fl) == prints_as_pointer \notin fl

\* '*' needs an argument that promotes to int; otherwise  return field;
star_needs_int(k) == promotes_to_int \notin flags_of(k)

field_error_width(f) == field_width_needs_int

field_error(f) == f

star_advance_none(k) == k

star_advance_two(k) == k + 2

\* ++spec_array after a '*'
star_advance(k) == k + 1

dot_forbidden_never(k) == FALSE

\* The test made on the '.' of a precision
dot_forbidden(k) == forbid_precision \in flags_of(k)

star_forbidden_never(f, k) == FALSE

star_forbidden_any_field(f, k) == forbid_precision \in flags_of(k)

\* The test made, for the precision only, on the specifier that follows the
\* one a '*' consumed
star_forbidden(f, k) ==
  f = field_precision_needs_int /\ forbid_precision \in flags_of(k)

end_status_correct(k) == correct

end_status_inverted(k) ==
  IF specifier_bool(k) THEN correct ELSE format_too_many_args

\* return *spec_array ? status::format_too_many_args : status::correct;
end_status(k) == IF specifier_bool(k) THEN format_too_many_args ELSE correct

type_scan_limit_five == 4 + 1

\* for (int i = 1; i <= 4; ++i)
type_scan_limit == 4

percent_at_end_unchecked(p) == FALSE

\* if (at_end(++src)) return status::format_spurious_percent;
percent_at_end(p) == at_end(p)

escaped_percent_single == <<"%">>

escaped_percent_tripled == <<"%", "%", "%">>

\* The characters appended for an escaped '%': append('%'); append(*src++);
escaped_percent == <<"%", "%">>

literal_dropped(p) == <<>>

\* The character appended for literal text: append(*src++);
literal(p) == <<Deref(p)>>

star_at_end_unchecked(p) == FALSE

\* if (at_end(++src)) return status::conversion_lacks_type;  after a '*'
star_at_end(p) == at_end(p)

skipped_copied(ch) == <<ch>>

\* else { continue; }: a character of the length sub-specifier is dropped
skipped(ch) == <<>>

buffer_size_no_terminator(n) == n

\* literal<count_size<Args...>(Fmt.data) + 1>
buffer_size(n) == n + 1

-----------------------------------------------------------------------------
(* The two sinks: counting_transformer::append, appending_transformer::append *)

RECURSIVE Store(_, _, _)
Store(b, at, cs) ==
  IF cs = <<>> THEN b
  ELSE Store([b EXCEPT ![at + 1] = Head(cs)], at + 1, Tail(cs))

append(cs) ==
  IF phase = "count"
    THEN /\ count' = count + Len(cs)
         /\ UNCHANGED <<buf, outpos>>
    ELSE /\ buf' = Store(buf, outpos, cs)
         /\ outpos' = outpos + Len(cs)
         /\ UNCHANGED count

Return_continues(s) ==
  /\ st' = s
  /\ pc' = "find"

\* return of a status from find_specifier / transform_specifier
Return(s) ==
  /\ st' = s
  /\ pc' = "ret"

-----------------------------------------------------------------------------
(* transformer::find_specifier: one iteration of its while loop *)

find_specifier ==
  /\ pc = "find"
  /\ IF at_end(src)
       THEN /\ Return(end_status(idx))
            /\ append(<<>>)
            /\ UNCHANGED <<src, idx, field, i>>
       ELSE IF Deref(src) = "%"
         THEN IF percent_at_end(src + 1)
                THEN /\ append(<<"%">>)
                     /\ src' = src + 1
                     /\ Return(format_spurious_percent)
                     /\ UNCHANGED <<idx, field, i>>
                ELSE IF Deref(src + 1) = "%"
                  THEN /\ append(escaped_percent)
                       /\ src' = src + 2
                       /\ UNCHANGED <<pc, st, idx, field, i>>
                  ELSE /\ append(<<"%">>)
                       /\ src' = src + 1
                       /\ pc' = "spec"
                       /\ UNCHANGED <<st, idx, field, i>>
         ELSE /\ append(literal(src))
              /\ src' = src + 1
              /\ UNCHANGED <<pc, st, idx, field, i>>
  /\ UNCHANGED <<tmpl, args, phase, cstatus, result>>

-----------------------------------------------------------------------------
(* transformer::transform_specifier *)

transform_specifier_wrong_status ==
  /\ pc = "spec"
  /\ IF ~specifier_bool(idx)
       THEN Return(format_too_many_args)
       ELSE /\ pc' = "flags"
            /\ UNCHANGED st
  /\ UNCHANGED <<tmpl, args, phase, src, idx, field, i, count, buf, outpos, cstatus, result>>

\* entry: no specifier left for the directive
transform_specifier ==
  /\ pc = "spec"
  /\ IF ~specifier_bool(idx)
       THEN Return(format_not_enough_args)
       ELSE /\ pc' = "flags"
            /\ UNCHANGED st
  /\ UNCHANGED <<tmpl, args, phase, src, idx, field, i, count, buf, outpos, cstatus, result>>

\* one iteration of the flags loop
copy_flags ==
  /\ pc = "flags"
  /\ IF ~at_end(src) /\ Deref(src) \in FlagChars
       THEN /\ append(<<Deref(src)>>)
            /\ src' = src + 1
            /\ UNCHANGED <<pc, field>>
       ELSE /\ append(<<>>)
            /\ pc' = "field"
            /\ field' = field_width_needs_int
            /\ UNCHANGED src
  /\ UNCHANGED <<tmpl, args, phase, idx, i, st, cstatus, result>>

NextField_repeat ==
  /\ pc' = "field"
  /\ field' = field_width_needs_int
  /\ UNCHANGED i

\* The end of one iteration of the loop over the two fields.
NextField ==
  IF field = field_width_needs_int
    THEN /\ pc' = "field"
         /\ field' = field_precision_needs_int
         /\ UNCHANGED i
    ELSE /\ pc' = "type"
         /\ i' = 1
         /\ UNCHANGED field

\* one iteration of the loop over width and precision, up to its digits loop
parse_field ==
  /\ pc = "field"
  /\ LET dot == field = field_precision_needs_int
         s1  == IF dot THEN src + 1 ELSE src
         o1  == IF dot THEN <<".">> ELSE <<>>
     IN
     IF at_end(src)
       THEN /\ Return(conversion_lacks_type)
            /\ append(<<>>)
            /\ UNCHANGED <<src, idx, field, i>>
     ELSE IF dot /\ Deref(src) # "."
       THEN /\ pc' = "type"
            /\ i' = 1
            /\ append(<<>>)
            /\ UNCHANGED <<src, idx, field, st>>
     ELSE IF dot /\ dot_forbidden(idx)
       THEN /\ Return(field_precision_not_allowed)
            /\ append(<<>>)
            /\ UNCHANGED <<src, idx, field, i>>
     ELSE IF dot /\ at_end(s1)
       THEN /\ append(o1)
            /\ src' = s1
            /\ Return(conversion_lacks_type)
            /\ UNCHANGED <<idx, field, i>>
     ELSE IF Deref(s1) = "*"
       THEN /\ append(o1 \o <<"*">>)
            /\ src' = s1 + 1
            /\ IF star_at_end(s1 + 1)
                 THEN /\ Return(conversion_lacks_type)
                      /\ UNCHANGED <<idx, field, i>>
               ELSE IF star_needs_int(idx)
                 THEN /\ Return(field_error(field))
                      /\ UNCHANGED <<idx, field, i>>
               ELSE /\ idx' = star_advance(idx)
                    /\ IF ~specifier_bool(star_advance(idx))
                         THEN /\ Return(format_not_enough_args)
                              /\ UNCHANGED <<field, i>>
                       ELSE IF star_forbidden(field, star_advance(idx))
                         THEN /\ Return(field_precision_not_allowed)
                              /\ UNCHANGED <<field, i>>
                       ELSE /\ NextField
                            /\ UNCHANGED st
     ELSE /\ append(o1)
          /\ src' = s1
          /\ pc' = "digits"
          /\ UNCHANGED <<idx, field, i, st>>
  /\ UNCHANGED <<tmpl, args, phase, cstatus, result>>

\* one iteration of the digits loop of a field
copy_digits ==
  /\ pc = "digits"
  /\ IF Deref(src) \in DigitChars
       THEN /\ append(<<Deref(src)>>)
            /\ src' = src + 1
            /\ IF at_end(src + 1)
                 THEN Return(conversion_lacks_type)
                 ELSE UNCHANGED <<pc, st>>
            /\ UNCHANGED <<field, i>>
       ELSE /\ append(<<>>)
            /\ NextField
            /\ UNCHANGED <<src, st>>
  /\ UNCHANGED <<tmpl, args, phase, idx, cstatus, result>>

\* one iteration of the loop over the (at most 4) characters of the length
\* sub-specifier and type specifier
parse_type ==
  /\ pc = "type"
  /\ LET ch == Deref(src)
         sp == spec_of(idx)
         fl == flags_of(idx)
         cl == specifier_class(ch)
         Done(cs) == /\ append(cs)
                     /\ idx' = idx + 1
                     /\ pc' = "find"
                     /\ UNCHANGED <<st, i>>
         Fail(s, cs) == /\ append(cs)
                        /\ Return(s)
                        /\ UNCHANGED <<idx, i>>
     IN
     IF i > type_scan_limit
       THEN /\ Return(conversion_lacks_type)
            /\ append(<<>>)
            /\ UNCHANGED <<src, idx, i>>
     ELSE IF at_end(src)
       THEN /\ Return(conversion_lacks_type)
            /\ append(<<>>)
            /\ UNCHANGED <<src, idx, i>>
     ELSE /\ src' = src + 1
          /\ IF ch = "?" THEN Done(deduced(sp))
             ELSE IF cl # "invalid" THEN
               IF ch = "c" THEN
                 IF lacks_char(fl)
                   THEN Fail(format_expects_char, <<>>) ELSE Done(<<ch>>)
               ELSE IF ch = "n" THEN
                 IF lacks_int_ptr(fl)
                   THEN Fail(format_expects_int_ptr, <<>>) ELSE Done(<<ch>>)
               ELSE IF ch = "p" THEN
                 IF lacks_ptr(fl)
                   THEN Fail(format_expects_ptr, <<>>) ELSE Done(<<ch>>)
               ELSE
                 IF class_differs(ch, sp)
                   THEN Fail(format_invalid_type, SubSpecifier(sp))
                   ELSE Done(SubSpecifier(sp) \o <<ch>>)
             ELSE /\ i' = i + 1
                  /\ append(skipped(ch))
                  /\ UNCHANGED <<pc, st, idx>>
  /\ UNCHANGED <<tmpl, args, phase, field, cstatus, result>>

-----------------------------------------------------------------------------
(* build_fmt: count_size, the buffer, the appending pass, check_error *)

\* count_size returns cx.count; buffer = literal<count + 1>{}; src = Fmt.data
build_fmt_buffer ==
  /\ phase = "count"
  /\ pc = "ret"
  /\ phase' = "append"
  /\ cstatus' = st
  /\ buf' = [k \in 1..buffer_size(count) |-> NUL]
  /\ outpos' = 0
  /\ src' = 0
  /\ idx' = 0
  /\ st' = none
  /\ pc' = "find"
  /\ UNCHANGED <<tmpl, args, field, i, count, result>>

\* check_error(st); return buffer
build_fmt_check ==
  /\ phase = "append"
  /\ pc = "ret"
  /\ phase' = "done"
  /\ result' = IF check_error(st) = "" THEN "buffer" ELSE "error"
  /\ UNCHANGED <<tmpl, args, pc, src, idx, field, i, st, count, buf, outpos, cstatus>>

-----------------------------------------------------------------------------
(* The inputs *)

Seqs(S, n) == UNION { [1..k -> S] : k \in 0..n }

\* Characters of the exhaustively enumerated templates.
Chars == {"%", "?", "*", ".", "1", "l", "d", "c"}

CoreTypes == {"int", "long", "int*", "char*", "container_of_char"}

\* The conversion letters of specifier_class.
Letters ==
  {"s", "d", "i", "u", "o", "x", "X", "c", "f", "F", "e", "E", "g", "G", "a",
   "A", "p", "n"}

\* "There are potentially 3 arguments that match to a single format specifier"
args_per_specifier == 3

\* One directive:  %[flags][width][.precision][length]specifier
Directives ==
  { <<"%">> \o f \o w \o p \o l \o <<t>> :
      f \in { <<>>, <<"-">> },
      w \in { <<>>, <<"2">>, <<"*">> },
      p \in { <<>>, <<".">>, <<".", "4">>, <<".", "*">> },
      l \in { <<>>, <<"l">>, <<"l", "l", "l", "l">> },
      t \in { "?", "d", "x", "s", "c", "p" } }

\* Length sub-specifiers a caller may write.
Lengths ==
  { <<"h">>, <<"h", "h">>, <<"l">>, <<"l", "l">>, <<"L">>, <<"j">>, <<"z">>,
    <<"t">>, <<"h", "l", "L">> }

\* One bare directive, or one directive with a '*', against every type.
BareDirectives ==
  { <<"%", c>> : c \in Letters \cup {"?"} }
    \cup { <<"%", "*", "?">>, <<"%", ".", "*", "?">>, <<"%", "7", "?">> }
    \cup { <<"%", f, "?">> : f \in FlagChars }
    \cup { <<"%">> \o ln \o <<t>> : ln \in Lengths, t \in {"?", "d", "s", "c", "g"} }

BareArgs ==
  Seqs(Types, 1) \cup { <<n, T>> : n \in {"int", "long"}, T \in Types }

Str(a, b, c) == a \o b \o c

\* Templates and argument types of the test suite.
SuiteCases ==
  { << <<"n", "o", " ", "a", "r", "g", "s">>, <<>> >>,
    << <<"%", "%", " ", "%", "%">>, <<>> >>,
    << <<"%", "0", "3", "?">>, <<"int">> >>,
    << <<"%", "-", "2", "0", ".", "4", "?">>, <<"unsigned long long">> >>,
    << <<"%", "*", ".", "*", "?">>, <<"int", "int", "char*">> >>,
    << <<"%", "*", ".", "*", "?">>, <<"bool", "char", "char*">> >>,
    << <<"%", "1", "0", ".", "2", "?">>, <<"container_of_char">> >>,
    << <<"%", "1", "0", ".", "2", "?">>, <<"char const*">> >>,
    << <<"%", "d", " ", "%", "s">>, <<"int">> >>,
    << <<"%", "d", " ", "%", "?", " ", "%", "d", " ", "%", "?">>,
       <<"unsigned int", "short", "int", "bool">> >>,
    << Str(<<"a", " ", "%", "?", " ", "b", " ", "%", "x", " ">>,
           <<"c", " ", "%", "%", " ", "d", " ">>, <<"%", "?", " ", "e">>),
       <<"double", "unsigned long", "char const*">> >> }

Init ==
  /\ \/ /\ tmpl \in Seqs(Chars, MaxLen)
        /\ args \in Seqs(CoreTypes, MaxArgs)
     \/ /\ tmpl \in Directives
        /\ args \in Seqs(CoreTypes, args_per_specifier)
     \/ /\ tmpl \in BareDirectives
        /\ args \in BareArgs
     \/ \E case \in SuiteCases : tmpl = case[1] /\ args = case[2]
  /\ phase = "count"
  /\ pc = "find"
  /\ src = 0
  /\ idx = 0
  /\ field = field_width_needs_int
  /\ i = 1
  /\ st = none
  /\ count = 0
  /\ buf = <<>>
  /\ outpos = 0
  /\ cstatus = none
  /\ result = none

Next ==
  \/ find_specifier
  \/ transform_specifier
  \/ copy_flags
  \/ parse_field
  \/ copy_digits
  \/ parse_type
  \/ build_fmt_buffer
  \/ build_fmt_check

Spec == Init /\ [][Next]_vars

-----------------------------------------------------------------------------
(* build_fmt applied to a format that build_fmt returned *)

\* build_fmt<Fmt, Args...>() with Fmt the buffer returned for the same Args:
\* "Standard format strings are fully supported".  result stays "buffer"
\* while the returned format is parsed.
build_fmt_again ==
  /\ phase = "done"
  /\ result = "buffer"
  /\ tmpl' = SubSeq(buf, 1, outpos)
  /\ phase' = "count"
  /\ pc' = "find"
  /\ src' = 0
  /\ idx' = 0
  /\ field' = field_width_needs_int
  /\ i' = 1
  /\ st' = none
  /\ count' = 0
  /\ buf' = <<>>
  /\ outpos' = 0
  /\ cstatus' = none
  /\ UNCHANGED <<args, result>>

NextAgain ==
  \/ Next
  \/ build_fmt_again

SpecAgain == Init /\ [][NextAgain]_vars

-----------------------------------------------------------------------------
(* What the properties speak of *)

\* The text written by the appending pass.
Output == SubSeq(buf, 1, outpos)

\* build_fmt has run both passes and check_error.
Done == phase = "done"

\* The type classes of the conversion letters.
TypeClassOf(ch) ==
  IF ch = "s" THEN "string"
  ELSE IF ch \in {"d", "i", "u", "o", "x", "X", "c"} THEN "integer"
  ELSE IF ch \in {"f", "F", "e", "E", "g", "G", "a", "A"} THEN "floating-point"
  ELSE IF ch \in {"p", "n"} THEN "pointer"
  ELSE "none"

\* A spec without its last character.
LengthPrefix(sp) == IF Len(sp) <= 1 THEN <<>> ELSE [k \in 1..(Len(sp) - 1) |-> sp[k]]

TypeLetter(sp) == sp[Len(sp)]

SpecialLetters == {"c", "n", "p"}

\* A bare directive %L with an explicit letter L of the set S, against one
\* descriptor whose spec ends in a letter of the type class of L.
BareLetterOfClass(S) ==
  /\ Len(tmpl) = 2
  /\ tmpl[1] = "%"
  /\ tmpl[2] \in S
  /\ Len(args) = 1
  /\ TypeClassOf(tmpl[2]) = TypeClassOf(TypeLetter(traits_spec(args[1])))

PrefixThenLetter ==
  /\ st = correct
  /\ Output = <<"%">> \o LengthPrefix(traits_spec(args[1])) \o <<tmpl[2]>>

\* The type scan is about to examine the character under src.
Examining == pc = "type" /\ i <= type_scan_limit /\ ~at_end(src)

\* The step appends exactly the characters cs to the sink of the running pass.
Emits(cs) ==
  IF phase = "count"
    THEN count' = count + Len(cs)
    ELSE outpos' = outpos + Len(cs) /\ SubSeq(buf', 1, outpos') = Output \o cs

-----------------------------------------------------------------------------
(* C1 *)

\* C1: for every supported type T, the template %? against [T] ends with
\* status correct and the output is % followed by the whole spec of T.
C1_DeducedWholeSpec ==
  (Done /\ tmpl = <<"%", "?">> /\ Len(args) = 1) =>
    /\ st = correct
    /\ result = "buffer"
    /\ Output = <<"%">> \o traits_spec(args[1])
    /\ args[1] = "int" => Output = <<"%", "d">>
    /\ args[1] = "unsigned long long" => Output = <<"%", "l", "l", "u">>
    /\ args[1] = "long double" => Output = <<"%", "L", "g">>
    /\ args[1] = "container_of_char" => Output = <<"%", ".", "*", "s">>

C1_Witness ==
  /\ Done
  /\ tmpl = <<"%", "?">>
  /\ args = <<"unsigned long long">>
  /\ st = correct
  /\ Output = <<"%", "l", "l", "u">>

-----------------------------------------------------------------------------
(* C2 *)

\* C2 as stated: for every explicit letter L of the type class of the
\* descriptor's last character, %L succeeds with % + length prefix + L.
C2_AnyLetterKeepsPrefix ==
  (Done /\ BareLetterOfClass(Letters)) => PrefixThenLetter

\* C2 (amended): for every explicit letter L other than c, n and p that is of
\* the type class of the last character of the single descriptor's spec, %L
\* succeeds and the output is % + the descriptor's length prefix + L.
C2_LetterKeepsPrefix ==
  /\ (Done /\ BareLetterOfClass(Letters \ SpecialLetters)) => PrefixThenLetter
  /\ (Done /\ tmpl = <<"%", "x">> /\ args = <<"signed char">>) =>
       Output = <<"%", "h", "h", "x">>

C2_Witness ==
  /\ Done
  /\ tmpl = <<"%", "x">>
  /\ args = <<"signed char">>
  /\ st = correct
  /\ Output = <<"%", "h", "h", "x">>

-----------------------------------------------------------------------------
(* C3 *)

\* C3: when the type scan examines an explicit letter other than c, n and p
\* whose type class differs from that of the last character of the current
\* descriptor's spec, the pass ends with format_invalid_type; the letter is
\* never accepted.
C3_MismatchIsInvalidType ==
  [][ ( /\ Examining
        /\ Deref(src) \in Letters \ SpecialLetters
        /\ TypeClassOf(Deref(src)) # TypeClassOf(TypeLetter(spec_of(idx))) )
      => (st' = format_invalid_type /\ pc' = "ret" /\ idx' = idx) ]_vars

C3_Witness ==
  /\ Done
  /\ tmpl = <<"%", "s">>
  /\ args = <<"nullptr_t">>
  /\ st = format_invalid_type
  /\ result = "error"

-----------------------------------------------------------------------------
(* C4 *)

CapabilityOf(ch) ==
  IF ch = "c" THEN promotes_to_int
  ELSE IF ch = "n" THEN record_position
  ELSE prints_as_pointer

ErrorOf(ch) ==
  IF ch = "c" THEN format_expects_char
  ELSE IF ch = "n" THEN format_expects_int_ptr
  ELSE format_expects_ptr

\* C4: c, n and p are checked by capability only: the letter is accepted iff
\* the current descriptor has PromotesToInt (c), RecordPosition (n),
\* PrintsAsPointer (p), and otherwise the pass ends with the letter's own
\* error; an accepted letter is written alone, with no length sub-specifier.
C4_SpecialLettersByCapability ==
  /\ [][ (Examining /\ Deref(src) \in SpecialLetters) =>
           IF CapabilityOf(Deref(src)) \in flags(args[idx + 1])
             THEN /\ st' = none
                  /\ pc' = "find"
                  /\ idx' = idx + 1
                  /\ Emits(<<Deref(src)>>)
             ELSE /\ st' = ErrorOf(Deref(src))
                  /\ pc' = "ret" ]_vars
  /\ [](Done /\ tmpl = <<"%", "c">> /\ args = <<"signed char">>
          => st = correct /\ Output = <<"%", "c">>)
  /\ [](Done /\ tmpl = <<"%", "p">> /\ args = <<"char*">>
          => st = correct /\ Output = <<"%", "p">>)
  /\ [](Done /\ tmpl = <<"%", "n">> /\ args = <<"nullptr_t">>
          => st = format_expects_int_ptr)

C4_Witness ==
  /\ Done
  /\ tmpl = <<"%", "c">>
  /\ args = <<"signed char">>
  /\ st = correct
  /\ Output = <<"%", "c">>

-----------------------------------------------------------------------------
(* C5 *)

WidthStar == <<"%", "*", "?">>

PrecisionStar == <<"%", ".", "*", "?">>

StarConsumesTwo(star) ==
  /\ st = correct
  /\ idx = 2
  /\ Output = <<"%">> \o star \o traits_spec(args[2])

\* C5 as stated: for every type T, %*? and %.*? against [int, T] succeed,
\* consume two descriptors and give %* + spec of T and %.* + spec of T.
C5_StarAgainstEveryType ==
  /\ (Done /\ tmpl = WidthStar /\ Len(args) = 2 /\ args[1] = "int")
       => StarConsumesTwo(<<"*">>)
  /\ (Done /\ tmpl = PrecisionStar /\ Len(args) = 2 /\ args[1] = "int")
       => StarConsumesTwo(<<".", "*">>)

\* C5 (amended): for every type T, %*? against [int, T] succeeds, consumes
\* exactly two descriptors and gives %* + spec of T; %.*? against [int, T]
\* does the same with %.* for every T without ForbidPrecision, and fails
\* with field_precision_not_allowed for a T with ForbidPrecision.
C5_StarConsumesInt ==
  /\ (Done /\ tmpl = WidthStar /\ Len(args) = 2 /\ args[1] = "int")
       => StarConsumesTwo(<<"*">>)
  /\ (Done /\ tmpl = PrecisionStar /\ Len(args) = 2 /\ args[1] = "int")
       => IF forbid_precision \in flags(args[2])
            THEN st = field_precision_not_allowed /\ result = "error"
            ELSE StarConsumesTwo(<<".", "*">>)

C5_Witness ==
  /\ Done
  /\ tmpl = PrecisionStar
  /\ args = <<"int", "char*">>
  /\ st = correct
  /\ idx = 2
  /\ Output = <<"%", ".", "*", "s">>

-----------------------------------------------------------------------------
(* C6 *)

StarNotInt == Len(args) >= 1 /\ promotes_to_int \notin flags(args[1])

\* C6 as stated: in %*? and %.*?, a descriptor without PromotesToInt at the
\* '*' gives field_width_needs_int, respectively field_precision_needs_int,
\* whatever its other capabilities.
C6_StarNeedsIntWhatever ==
  /\ (Done /\ tmpl = WidthStar /\ StarNotInt) => st = field_width_needs_int
  /\ (Done /\ tmpl = PrecisionStar /\ StarNotInt)
       => st = field_precision_needs_int

\* C6 (amended): in %*? a descriptor without PromotesToInt at the '*' gives
\* field_width_needs_int whatever its other capabilities; in %.*? it gives
\* field_precision_needs_int unless it has ForbidPrecision, which the '.'
\* before the '*' rejects first with field_precision_not_allowed.
C6_StarNeedsInt ==
  /\ (Done /\ tmpl = WidthStar /\ StarNotInt) => st = field_width_needs_int
  /\ (Done /\ tmpl = PrecisionStar /\ StarNotInt)
       => st = IF forbid_precision \in flags(args[1])
                 THEN field_precision_not_allowed
                 ELSE field_precision_needs_int

C6_Witness ==
  /\ Done
  /\ tmpl = PrecisionStar
  /\ args = <<"long", "char*">>
  /\ st = field_precision_needs_int

-----------------------------------------------------------------------------
(* C7 *)

InPrecision == pc = "field" /\ field = field_precision_needs_int

\* C7: a '.' met in the precision phase while the current descriptor has
\* ForbidPrecision, and a precision '*' that has consumed its int argument
\* and left a ForbidPrecision descriptor current, both end the pass with
\* field_precision_not_allowed; %10.2? against a span-like descriptor fails
\* so and never gives %10.2.*s.
C7_PrecisionNotAllowed ==
  /\ [][ (InPrecision /\ Deref(src) = "."
            /\ forbid_precision \in flags(args[idx + 1]))
         => (st' = field_precision_not_allowed /\ pc' = "ret") ]_vars
  /\ [][ ( /\ InPrecision
           /\ idx' = idx + 1
           /\ idx' < Len(args)
           /\ forbid_precision \in flags(args[idx' + 1]) )
         => (st' = field_precision_not_allowed /\ pc' = "ret") ]_vars
  /\ [](Done /\ tmpl = <<"%", "1", "0", ".", "2", "?">>
             /\ args = <<"container_of_char">>
          => /\ st = field_precision_not_allowed
             /\ result = "error"
             /\ Output # <<"%", "1", "0", ".", "2", ".", "*", "s">>)

C7_Witness ==
  /\ Done
  /\ tmpl = PrecisionStar
  /\ args = <<"int", "container_of_char">>
  /\ idx = 1
  /\ st = field_precision_not_allowed

-----------------------------------------------------------------------------
(* C8 *)

\* A template % digits ? with at least one digit.
DigitWidth ==
  /\ Len(tmpl) >= 3
  /\ tmpl[1] = "%"
  /\ tmpl[Len(tmpl)] = "?"
  /\ \A k \in 2..(Len(tmpl) - 1) : tmpl[k] \in DigitChars

\* C8: a field width with no precision is accepted for a ForbidPrecision
\* descriptor: %*? against [int, span-like] gives %*.*s and % digits ?
\* against [span-like] gives % digits .*s.
C8_WidthAllowedWithForbidPrecision ==
  /\ (Done /\ tmpl = WidthStar /\ Len(args) = 2
        /\ promotes_to_int \in flags(args[1])
        /\ args[2] = "container_of_char")
       => (st = correct /\ Output = <<"%", "*", ".", "*", "s">>)
  /\ (Done /\ DigitWidth /\ args = <<"container_of_char">>)
       => /\ st = correct
          /\ Output = SubSeq(tmpl, 1, Len(tmpl) - 1) \o <<".", "*", "s">>

C8_Witness ==
  /\ Done
  /\ tmpl = WidthStar
  /\ args = <<"int", "container_of_char">>
  /\ st = correct
  /\ Output = <<"%", "*", ".", "*", "s">>

-----------------------------------------------------------------------------
(* C9 *)

\* The printf grammar: the number of directives of t from position p on in
\* the given mode, plus w for each '*' standing for a width or a precision.
RECURSIVE Asked(_, _, _, _)
Asked(t, p, mode, w) ==
  IF p > Len(t) THEN 0
  ELSE LET c == t[p] IN
    CASE mode = "text" ->
           IF c # "%" THEN Asked(t, p + 1, "text", w)
           ELSE IF p = Len(t) THEN 0
           ELSE IF t[p + 1] = "%" THEN Asked(t, p + 2, "text", w)
           ELSE 1 + Asked(t, p + 1, "flags", w)
      [] mode = "flags" ->
           IF c \in {"-", "+", " ", "#", "0"}
             THEN Asked(t, p + 1, "flags", w)
             ELSE Asked(t, p, "width", w)
      [] mode = "width" ->
           IF c = "*" THEN w + Asked(t, p + 1, "dot", w)
           ELSE Asked(t, p, "width digits", w)
      [] mode = "width digits" ->
           IF c \in DigitChars THEN Asked(t, p + 1, "width digits", w)
           ELSE Asked(t, p, "dot", w)
      [] mode = "dot" ->
           IF c = "." THEN Asked(t, p + 1, "precision", w)
           ELSE Asked(t, p, "type", w)
      [] mode = "precision" ->
           IF c = "*" THEN w + Asked(t, p + 1, "type", w)
           ELSE Asked(t, p, "precision digits", w)
      [] mode = "precision digits" ->
           IF c \in DigitChars THEN Asked(t, p + 1, "precision digits", w)
           ELSE Asked(t, p, "type", w)
      [] mode = "type" ->
           IF c \in Letters \cup {"?"} THEN Asked(t, p + 1, "text", w)
           ELSE Asked(t, p + 1, "type", w)

\* D: the directives of the template.
NumDirectives == Asked(tmpl, 1, "text", 0)

\* The '*' characters of the template.
NumStars == Cardinality({ k \in 1..Len(tmpl) : tmpl[k] = "*" })

\* D plus the '*' that stand for a field width or a field precision.
NumAsked == Asked(tmpl, 1, "text", 1)

\* C9 as stated: the parse succeeds iff N = D + the number of '*'; a greater
\* N fails with format_too_many_args, a smaller N with
\* format_not_enough_args.
C9_CountDecidesStatus ==
  Done =>
    /\ (st = correct) <=> (Len(args) = NumDirectives + NumStars)
    /\ Len(args) > NumDirectives + NumStars => st = format_too_many_args
    /\ Len(args) < NumDirectives + NumStars => st = format_not_enough_args

\* C9 (amended): with D the directives of the template and S the '*' that
\* stand for a field width or precision in them, a parse that succeeds has
\* N = D + S, one that fails with format_too_many_args has N > D + S, and one
\* that fails with format_not_enough_args has N < D + S; for any N the parse
\* may instead fail with another status.
C9_StatusBoundsCount ==
  Done =>
    /\ st = correct => Len(args) = NumAsked
    /\ st = format_too_many_args => Len(args) > NumAsked
    /\ st = format_not_enough_args => Len(args) < NumAsked

C9_Witness ==
  /\ Done
  /\ tmpl = <<"%", "*", ".", "*", "?">>
  /\ args = <<"int", "int", "char*">>
  /\ st = correct
  /\ NumAsked = 3

-----------------------------------------------------------------------------
(* C10 *)

AtEndOfText == pc = "find" /\ src = Len(tmpl)

\* C10: a pass returns correct exactly when the end of the template is
\* reached in the literal-copy loop with the sentinel current, and
\* format_too_many_args exactly when it is reached there with a descriptor
\* left; format_too_many_args is never returned before the whole template
\* has been read.
C10_EndOfTemplateDecides ==
  /\ [][ (st # correct /\ st' = correct)
           <=> (AtEndOfText /\ idx = Len(args)) ]_vars
  /\ [][ (st # format_too_many_args /\ st' = format_too_many_args)
           <=> (AtEndOfText /\ idx < Len(args)) ]_vars
  /\ [](st = format_too_many_args => src = Len(tmpl))
  /\ [](st = correct => src = Len(tmpl) /\ idx = Len(args))

C10_Witness ==
  /\ Done
  /\ tmpl = <<"%", "d">>
  /\ args = <<"int", "long">>
  /\ idx = 1
  /\ st = format_too_many_args

-----------------------------------------------------------------------------
(* C11 *)

\* C11: a directive reached while the sentinel descriptor is current returns
\* format_not_enough_args before any character after its '%' is examined or
\* written, and so does a '*' that consumed the last real descriptor; %d %s
\* against [int] fails so at its second directive.
C11_NotEnoughArgs ==
  /\ [](pc = "spec" => src >= 1 /\ tmpl[src] = "%")
  /\ [][ (pc = "spec" /\ idx = Len(args))
         => /\ st' = format_not_enough_args
            /\ pc' = "ret"
            /\ src' = src
            /\ Emits(<<>>) ]_vars
  /\ [][ (pc = "field" /\ idx' = idx + 1 /\ idx' = Len(args))
         => (st' = format_not_enough_args /\ pc' = "ret") ]_vars
  /\ [](Done /\ tmpl = <<"%", "d", " ", "%", "s">> /\ args = <<"int">>
          => st = format_not_enough_args /\ src = 4 /\ idx = 1)

C11_Witness ==
  /\ Done
  /\ tmpl = <<"%", "*", "?">>
  /\ args = <<"int">>
  /\ idx = 1
  /\ st = format_not_enough_args

-----------------------------------------------------------------------------
(* C12 *)

\* The template is one directive that never reaches a type letter or '?'.
OpenDirective ==
  /\ Len(tmpl) >= 2
  /\ tmpl[1] = "%"
  /\ tmpl[2] # "%"
  /\ \A k \in 2..Len(tmpl) : tmpl[k] \notin Letters \cup {"?"}

HasChar(c) == \E k \in 1..Len(tmpl) : tmpl[k] = c

InDirective == pc \in {"flags", "field", "digits", "type"}

\* C12 as stated: a template that ends in the middle of a sub-phase of a
\* directive returns conversion_lacks_type.
C12_OpenDirectiveLacksType ==
  (Done /\ OpenDirective) => st = conversion_lacks_type

\* C12 (amended): when the parser finds the end of the template in the
\* middle of a sub-phase of a directive (after flags, after width digits or a
\* width '*', after the '.', precision digits or a precision '*', or among
\* length characters) it returns conversion_lacks_type; an error met earlier
\* in the directive is returned instead: format_not_enough_args,
\* field_width_needs_int, field_precision_needs_int, and
\* field_precision_not_allowed, which a '.' ending the template gets from a
\* ForbidPrecision descriptor.
C12_EndInsideDirective ==
  /\ [][ (pc \in {"field", "digits", "type"} /\ src = Len(tmpl))
         => (st' = conversion_lacks_type /\ pc' = "ret") ]_vars
  /\ [][ (pc \in {"field", "digits"} /\ src < Len(tmpl) /\ src' = Len(tmpl))
         => (st' = conversion_lacks_type /\ pc' = "ret") ]_vars
  /\ [][ (pc = "flags" /\ src = Len(tmpl))
         => (pc' = "field" /\ src' = src /\ st' = none) ]_vars
  /\ [][ (pc = "type" /\ src < Len(tmpl) /\ src' = Len(tmpl)
            /\ Deref(src) \notin Letters \cup {"?"})
         => (pc' = "type" /\ st' = none) ]_vars
  /\ [](Done /\ OpenDirective
          => st \in { conversion_lacks_type, format_not_enough_args,
                      field_width_needs_int, field_precision_needs_int,
                      field_precision_not_allowed })
  /\ [](Done /\ OpenDirective /\ Len(args) >= 1 /\ ~HasChar("*")
             /\ ~(HasChar(".") /\ forbid_precision \in flags(args[1]))
          => st = conversion_lacks_type)
  /\ [](Done /\ tmpl = <<"%", ".">> /\ args = <<"container_of_char">>
          => st = field_precision_not_allowed)

C12_Witness ==
  /\ Done
  /\ tmpl = <<"%", ".", "*">>
  /\ args = <<"long">>
  /\ src = Len(tmpl)
  /\ st = conversion_lacks_type

-----------------------------------------------------------------------------
(* C13 *)

\* The number of '%' that end the template.
TrailingPercents ==
  Cardinality({ k \in 1..Len(tmpl) : \A j \in k..Len(tmpl) : tmpl[j] = "%" })

\* The last character is a '%' that is not the second of a pair of '%'.
LoneTrailingPercent == TrailingPercents % 2 = 1

\* C13 as stated: a '%' that is the last character of the template, and not
\* the second of an escaped pair, returns format_spurious_percent whatever
\* the descriptors.
C13_TrailingPercentIsSpurious ==
  (Done /\ LoneTrailingPercent) => st = format_spurious_percent

\* C13 (amended): a '%' that the literal-copy loop meets as the last
\* character of the template returns format_spurious_percent, whatever the
\* descriptor sequence contains, descriptors left or none; a '%' that ends
\* the template inside a directive, or after a directive that failed, does
\* not.
C13_SpuriousPercent ==
  /\ [][ (pc = "find" /\ Deref(src) = "%" /\ src + 1 = Len(tmpl))
         => /\ st' = format_spurious_percent
            /\ pc' = "ret"
            /\ src' = Len(tmpl)
            /\ idx' = idx ]_vars
  /\ [](st = format_spurious_percent
          => src = Len(tmpl) /\ tmpl[Len(tmpl)] = "%")
  /\ [](Done /\ LoneTrailingPercent /\ NumDirectives = 0
          => st = format_spurious_percent)

C13_Witness ==
  /\ Done
  /\ tmpl = <<"1", "%">>
  /\ args = <<"long", "int">>
  /\ idx = 0
  /\ st = format_spurious_percent

-----------------------------------------------------------------------------
(* C14 *)

AtEscapedPercent ==
  pc = "find" /\ Deref(src) = "%" /\ Deref(src + 1) = "%"

\* C14 as stated: in the literal-copy state a '%' followed by a second '%'
\* consumes both characters, emits a single '%', consumes no descriptor and
\* stays in the literal-copy state.
C14_EscapeEmitsOnePercent ==
  [][ AtEscapedPercent
      => /\ src' = src + 2
         /\ Emits(<<"%">>)
         /\ idx' = idx
         /\ pc' = "find"
         /\ st' = none ]_vars

\* C14 (amended): in the literal-copy state a '%' followed by a second '%'
\* consumes both characters, emits both (the output keeps the escaped pair
\* %%), consumes no descriptor and stays in the literal-copy state.
C14_EscapeKeepsPair ==
  /\ [][ AtEscapedPercent
         => /\ src' = src + 2
            /\ Emits(<<"%", "%">>)
            /\ idx' = idx
            /\ pc' = "find"
            /\ st' = none ]_vars
  /\ [](Done /\ tmpl = <<"%", "%">> /\ args = <<>>
          => st = correct /\ Output = <<"%", "%">>)

C14_Witness ==
  /\ Done
  /\ tmpl = <<"%", "%", "d">>
  /\ args = <<>>
  /\ st = correct
  /\ idx = 0
  /\ Output = <<"%", "%", "d">>

-----------------------------------------------------------------------------
(* C15 *)

\* From position p on, t holds only literal characters and pairs %%.
RECURSIVE OnlyText(_, _)
OnlyText(t, p) ==
  IF p > Len(t) THEN TRUE
  ELSE IF t[p] # "%" THEN OnlyText(t, p + 1)
  ELSE IF p < Len(t) /\ t[p + 1] = "%" THEN OnlyText(t, p + 2)
  ELSE FALSE

\* C15: a template without directive (literal characters and pairs %% only)
\* against the empty descriptor sequence succeeds and the output is the
\* template, character for character; %% %% gives %% %%.
C15_TextIsCopied ==
  /\ (Done /\ args = <<>> /\ OnlyText(tmpl, 1))
       => /\ st = correct
          /\ result = "buffer"
          /\ Output = tmpl
  /\ (Done /\ tmpl = <<"%", "%", " ", "%", "%">> /\ args = <<>>)
       => Output = <<"%", "%", " ", "%", "%">>

C15_Witness ==
  /\ Done
  /\ tmpl = <<"%", "%", " ", "%", "%">>
  /\ args = <<>>
  /\ st = correct
  /\ Output = <<"%", "%", " ", "%", "%">>

-----------------------------------------------------------------------------
(* C16 *)

CopiedFlags == {"-", "+", " ", "#", "0"}

Digits == {"0", "1", "2", "3", "4", "5", "6", "7", "8", "9"}

\* From position p on, t is the rest of  %FW.P?  : flags (part 0), a digit
\* width (part 1), a dot and a digit precision (part 2), then the final ?.
RECURSIVE FlagsWidthPrecision(_, _, _)
FlagsWidthPrecision(t, p, part) ==
  IF p > Len(t) THEN FALSE
  ELSE IF p = Len(t) THEN t[p] = "?"
  ELSE IF part = 0 /\ t[p] \in CopiedFlags THEN FlagsWidthPrecision(t, p + 1, 0)
  ELSE IF part \in {0, 1} /\ t[p] \in Digits THEN FlagsWidthPrecision(t, p + 1, 1)
  ELSE IF part \in {0, 1} /\ t[p] = "." THEN FlagsWidthPrecision(t, p + 1, 2)
  ELSE IF part = 2 /\ t[p] \in Digits THEN FlagsWidthPrecision(t, p + 1, 2)
  ELSE FALSE

\* C16: the flags, the width digits and the dot with the precision digits of
\* a directive are copied unchanged and in order ahead of the regenerated
\* length and type:  %FW.P?  against one descriptor without ForbidPrecision
\* gives  %FW.P  followed by the descriptor's spec.
C16_FlagsWidthPrecisionCopied ==
  /\ ( /\ Done
       /\ Len(args) = 1
       /\ Len(tmpl) >= 2
       /\ tmpl[1] = "%"
       /\ FlagsWidthPrecision(tmpl, 2, 0)
       /\ forbid_precision \notin flags(args[1]) )
       => /\ st = correct
          /\ result = "buffer"
          /\ Output = SubSeq(tmpl, 1, Len(tmpl) - 1) \o traits_spec(args[1])
  /\ (Done /\ tmpl = <<"%", "-", "2", "0", ".", "4", "?">>
           /\ args = <<"unsigned long long">>)
       => Output = <<"%", "-", "2", "0", ".", "4", "l", "l", "u">>
  /\ (Done /\ tmpl = <<"%", "0", "3", "?">> /\ args = <<"int">>)
       => Output = <<"%", "0", "3", "d">>

C16_Witness ==
  /\ Done
  /\ tmpl = <<"%", "-", "2", "0", ".", "4", "?">>
  /\ args = <<"unsigned long long">>
  /\ st = correct
  /\ Output = <<"%", "-", "2", "0", ".", "4", "l", "l", "u">>

-----------------------------------------------------------------------------
(* C17 *)

\* The appending pass has returned.
Appended == phase = "done" \/ (phase = "append" /\ pc = "ret")

\* C17: for every template and descriptor sequence, failing parses included,
\* the counting pass and the appending pass return the same status and the
\* appender writes exactly count characters; it never writes at or beyond
\* offset count of the buffer of count + 1 bytes, whose last byte stays the
\* null terminator.
C17_PassesAgree ==
  /\ Appended => (cstatus = st /\ outpos = count)
  /\ phase # "count" =>
       /\ Len(buf) = count + 1
       /\ outpos <= count
       /\ \A k \in (outpos + 1)..(count + 1) : buf[k] = NUL
       /\ \A k \in 1..outpos : buf[k] # NUL

C17_Witness ==
  /\ Done
  /\ tmpl = <<"%", "d", " ", "%", "s">>
  /\ args = <<"int">>
  /\ cstatus = format_not_enough_args
  /\ st = format_not_enough_args
  /\ count = 4
  /\ outpos = 4
  /\ buf = <<"%", "d", " ", "%", NUL>>

-----------------------------------------------------------------------------
(* C18 *)

Failures ==
  { conversion_lacks_type, field_precision_needs_int,
    field_precision_not_allowed, field_width_needs_int, format_expects_char,
    format_expects_int_ptr, format_expects_ptr, format_invalid_type,
    format_not_enough_args, format_spurious_percent, format_too_many_args }

\* C18: the rewritten format is delivered only when the status is correct:
\* check_error has no message for correct and a non-empty message for each
\* of the eleven failures, and on a failure build_fmt aborts instead of
\* returning the buffer.
C18_FailureAborts ==
  /\ Cardinality(Failures) = 11
  /\ check_error(correct) = ""
  /\ \A s \in Failures : check_error(s) # ""
  /\ Done =>
       /\ st \in Failures \cup {correct}
       /\ st = correct => result = "buffer"
       /\ st \in Failures => result = "error"
  /\ ~Done => result = none

C18_Witness ==
  /\ Done
  /\ tmpl = <<"%", "?">>
  /\ args = <<"int", "int">>
  /\ st = format_too_many_args
  /\ result = "error"

-----------------------------------------------------------------------------
(* C19 *)

\* The step is within one pass (it does not start the second pass).
SamePass == phase' = phase

\* The loop over width and precision is about to run an iteration that has
\* neither a '*' nor a digit: no width, or a precision of the '.' alone.
FieldWithoutDigits ==
  /\ pc = "field"
  /\ ~at_end(src)
  /\ IF InPrecision
       THEN Deref(src) = "." /\ Deref(src + 1) \notin Digits \cup {"*"}
       ELSE Deref(src) \notin Digits \cup {"*"}

\* The loops whose every continuing iteration reads a character.
CharacterIteration ==
  \/ pc = "find" /\ ~at_end(src)
  \/ pc = "flags" /\ Deref(src) \in CopiedFlags
  \/ pc = "digits" /\ Deref(src) \in Digits
  \/ Examining

\* C19 as stated: src strictly increases on every iteration of the
\* literal-copy loop and of every loop of the directive, and idx never
\* decreases.
C19_SrcAdvancesEveryIteration ==
  /\ [][ (CharacterIteration \/ FieldWithoutDigits) => src' > src ]_vars
  /\ [][ SamePass => idx' >= idx ]_vars

PcRank ==
  CASE pc = "find"   -> 10
    [] pc = "spec"   -> 9
    [] pc = "flags"  -> 8
    [] pc = "field"  -> IF field = field_precision_needs_int THEN 5 ELSE 7
    [] pc = "digits" -> IF field = field_precision_needs_int THEN 4 ELSE 6
    [] pc = "type"   -> 3
    [] pc = "ret"    -> 0

PassMeasure == (Len(tmpl) + 1 - src) * 16 + PcRank

\* What remains to be done: decreases with every step of build_fmt.
Measure ==
  CASE phase = "count"  -> 2 * (Len(tmpl) + 2) * 16 + PassMeasure
    [] phase = "append" -> (Len(tmpl) + 2) * 16 + PassMeasure
    [] phase = "done"   -> 0

\* C19 (amended): every parse terminates with exactly one terminal status:
\* src never decreases and strictly increases on every iteration of the
\* literal-copy loop, with every flag and digit copied and every character
\* the type scan examines; the loop over width and precision makes at most
\* two iterations, which may leave src where it is; idx never decreases.
C19_ParseTerminates ==
  /\ [][ SamePass => (src' >= src /\ idx' >= idx) ]_vars
  /\ [][ CharacterIteration => src' > src ]_vars
  /\ [][ (pc = "field" /\ InPrecision) => pc' \in {"digits", "type", "ret"} ]_vars
  /\ [][ Measure' < Measure ]_vars
  /\ [](Measure \in Nat /\ src <= Len(tmpl) /\ idx <= Len(args))
  /\ [](st \in status \cup {none} /\ (st \in status <=> pc = "ret"))
  /\ [](Done => st \in status /\ cstatus = st)

C19_Witness ==
  /\ Done
  /\ tmpl = <<"%", "d">>
  /\ args = <<"int">>
  /\ st = correct
  /\ src = 2
  /\ idx = 1

-----------------------------------------------------------------------------
(* C20 *)

\* The consuming elements (width '*', precision '*', type) of the part of
\* the template already read.
NumConsumed == Asked(SubSeq(tmpl, 1, src), 1, "text", 1)

\* The character a '*' of the current field would stand at.
FieldChar == IF InPrecision THEN Deref(src + 1) ELSE Deref(src)

SuiteMixed ==
  Str(<<"a", " ", "%", "?", " ", "b", " ", "%", "x", " ">>,
      <<"c", " ", "%", "%", " ", "d", " ">>, <<"%", "?", " ", "e">>)

SuiteMixedOutput ==
  Str(<<"a", " ", "%", "g", " ", "b", " ", "%", "l", "x", " ">>,
      <<"c", " ", "%", "%", " ", "d", " ">>, <<"%", "s", " ", "e">>)

\* C20: descriptors are consumed in sequence order, each at most once: idx
\* advances by one with the type letter or ? of a directive that is accepted
\* and by one with each '*' consumed as width or precision, and by nothing
\* with literal text, %%, flags and digits; so the k-th consuming element is
\* checked against the k-th descriptor, and a successful parse has consumed
\* them all.
C20_DescriptorsInOrder ==
  /\ [][ SamePass => idx' \in {idx, idx + 1} ]_vars
  /\ [][ (SamePass /\ pc \in {"find", "spec", "flags", "digits", "ret"})
           => idx' = idx ]_vars
  /\ [][ (pc = "field" /\ idx' # idx)
           => /\ FieldChar = "*"
              /\ promotes_to_int \in flags(args[idx + 1])
              /\ src' = src + (IF InPrecision THEN 2 ELSE 1) ]_vars
  /\ [][ pc = "type"
           => /\ (idx' = idx + 1) <=> (pc' = "find")
              /\ (idx' = idx + 1) => (Deref(src) \in Letters \cup {"?"}) ]_vars
  /\ [](pc = "find" => idx = NumConsumed)
  /\ [](Done /\ st = correct => idx = Len(args) /\ idx = NumAsked)
  /\ [](Done /\ tmpl = SuiteMixed
             /\ args = <<"double", "unsigned long", "char const*">>
          => st = correct /\ idx = 3 /\ Output = SuiteMixedOutput)

C20_Witness ==
  /\ Done
  /\ tmpl = SuiteMixed
  /\ args = <<"double", "unsigned long", "char const*">>
  /\ st = correct
  /\ idx = 3
  /\ Output = SuiteMixedOutput

-----------------------------------------------------------------------------
(* C21 *)

\* C21: a failure status is terminal: once a pass has determined one, the
\* pass appends no further character, moves neither src nor idx, and the
\* status is replaced neither by correct nor by another failure; the counting
\* pass hands its count to build_fmt, the appending pass its status to
\* check_error.
C21_ErrorIsTerminal ==
  /\ [](st \in Failures => pc = "ret")
  /\ [][ (st \in Failures /\ phase = "count")
           => /\ phase' = "append"
              /\ cstatus' = st
              /\ count' = count ]_vars
  /\ [][ (st \in Failures /\ phase = "append")
           => /\ phase' = "done"
              /\ st' = st
              /\ src' = src
              /\ idx' = idx
              /\ buf' = buf
              /\ outpos' = outpos
              /\ result' = "error" ]_vars
  /\ [][ (st \in Failures) => (st' \in {st, none}) ]_vars

C21_Witness ==
  /\ Done
  /\ tmpl = <<"%", "*", "?">>
  /\ args = <<"long">>
  /\ st = field_width_needs_int
  /\ src = 2
  /\ idx = 0
  /\ Output = <<"%", "*">>
  /\ result = "error"

-----------------------------------------------------------------------------
(* C22 *)

\* C22: whenever a pass returns correct, src is at the end of the template,
\* on its terminator: correct is never returned with characters left unread.
C22_CorrectAtEnd ==
  st = correct =>
    /\ pc = "ret"
    /\ src = Len(tmpl)
    /\ Deref(src) = NUL

C22_Witness ==
  /\ Done
  /\ tmpl = <<"c", "%", "d">>
  /\ args = <<"int">>
  /\ st = correct
  /\ src = 3

-----------------------------------------------------------------------------
(* C23 *)

LengthCharacters == {"h", "l", "L", "j", "z", "t"}

\* One directive made of zero to three length characters and a type letter
\* or ?, against one descriptor.
LengthThenType ==
  /\ Len(tmpl) \in 2..5
  /\ tmpl[1] = "%"
  /\ \A k \in 2..(Len(tmpl) - 1) : tmpl[k] \in LengthCharacters
  /\ tmpl[Len(tmpl)] \in Letters \cup {"?"}
  /\ Len(args) = 1

\* The status and the text that the type character t gets from the spec sp
\* and the capabilities fl of its descriptor, whatever the caller wrote as
\* length.
StatusOfType(t, sp, fl) ==
  IF t = "?" THEN correct
  ELSE IF t \in SpecialLetters
    THEN IF CapabilityOf(t) \in fl THEN correct ELSE ErrorOf(t)
  ELSE IF TypeClassOf(t) = TypeClassOf(TypeLetter(sp)) THEN correct
  ELSE format_invalid_type

TextOfType(t, sp, fl) ==
  IF t = "?" THEN sp
  ELSE IF t \in SpecialLetters
    THEN IF CapabilityOf(t) \in fl THEN <<t>> ELSE <<>>
  ELSE IF TypeClassOf(t) = TypeClassOf(TypeLetter(sp))
    THEN LengthPrefix(sp) \o <<t>>
  ELSE LengthPrefix(sp)

\* C23: the length characters written between the precision and the type
\* are never copied: a skipped character emits nothing, and the status and
\* the output of a directive of zero to three length characters and a type
\* are those of its type character and descriptor alone, so templates that
\* differ only in the length characters give the same status and output.
C23_LengthIsRegenerated ==
  /\ [][ (Examining /\ Deref(src) \in LengthCharacters)
           => /\ Emits(<<>>)
              /\ src' = src + 1
              /\ idx' = idx
              /\ st' = none ]_vars
  /\ [](Done /\ LengthThenType =>
          /\ st = StatusOfType(Last(tmpl), traits_spec(args[1]), flags(args[1]))
          /\ Output = <<"%">> \o
               TextOfType(Last(tmpl), traits_spec(args[1]), flags(args[1])))
  /\ [](Done /\ args = <<"int">>
             /\ tmpl \in { <<"%", "d">>, <<"%", "l", "d">>, <<"%", "l", "l", "d">> }
          => st = correct /\ Output = <<"%", "d">>)
  /\ [](Done /\ tmpl = <<"%", "h", "h", "d">> /\ args = <<"signed char">>
          => st = correct /\ Output = <<"%", "h", "h", "d">>)

C23_Witness ==
  /\ Done
  /\ tmpl = <<"%", "l", "l", "d">>
  /\ args = <<"int">>
  /\ st = correct
  /\ Output = <<"%", "d">>

-----------------------------------------------------------------------------
(* C24 *)

\* The type scan is on one of its four characters.
Scanning == pc = "type" /\ i <= 4 /\ Deref(src) # NUL

TypeCharacters == Letters \cup {"?"}

FourLengthsThenType == <<"%", "l", "l", "l", "l", "d">>

\* C24: after flags, width and precision at most four characters are
\* scanned for the type: a character that is neither ? nor a conversion
\* letter is skipped without being emitted; after four such characters the
\* parse returns conversion_lacks_type although the template has not ended;
\* a type letter or ? met as first to fourth character ends the directive.
C24_TypeScanOfFour ==
  /\ [](pc = "type" => i \in 1..5)
  /\ [][ (Scanning /\ Deref(src) \notin TypeCharacters)
           => /\ Emits(<<>>)
              /\ src' = src + 1
              /\ i' = i + 1
              /\ pc' = "type"
              /\ st' = none
              /\ idx' = idx ]_vars
  /\ [][ (pc = "type" /\ i > 4)
           => /\ st' = conversion_lacks_type
              /\ pc' = "ret"
              /\ src' = src
              /\ idx' = idx
              /\ Emits(<<>>) ]_vars
  /\ [][ (Scanning /\ Deref(src) \in TypeCharacters)
           => /\ src' = src + 1
              /\ \/ pc' = "find" /\ st' = none /\ idx' = idx + 1
                 \/ pc' = "ret" /\ st' \in Failures /\ idx' = idx ]_vars
  /\ [](Done /\ tmpl = FourLengthsThenType /\ args = <<"int">>
          => /\ st = conversion_lacks_type
             /\ src = 5
             /\ Deref(src) = "d"
             /\ Output = <<"%">>)

C24_Witness ==
  /\ Done
  /\ tmpl = FourLengthsThenType
  /\ args = <<"int">>
  /\ st = conversion_lacks_type
  /\ src = 5
  /\ Output = <<"%">>

-----------------------------------------------------------------------------
(* C25 *)

NoForbidPrecision ==
  \A k \in 1..Len(args) : forbid_precision \notin flags(args[k])

\* A pass over a format that build_fmt returned has ended.
ReturnedFormatParsed == result = "buffer" /\ phase # "done" /\ pc = "ret"

\* C25: without a ForbidPrecision descriptor the rewriting is idempotent:
\* the output O of a successful parse, parsed against the same descriptors,
\* succeeds again and its output is O.
C25_Idempotent ==
  (ReturnedFormatParsed /\ NoForbidPrecision) =>
    /\ st = correct
    /\ phase = "append" => Output = tmpl

C25_Witness ==
  /\ ReturnedFormatParsed
  /\ phase = "append"
  /\ tmpl = <<"%", "h", "h", "x">>
  /\ args = <<"signed char">>
  /\ st = correct
  /\ Output = <<"%", "h", "h", "x">>

-----------------------------------------------------------------------------
(* C26 *)

\* The text of the directive being written: the output from its % on.
DirectiveText(b, n) ==
  LET start == CHOOSE k \in 1..n :
                 b[k] = "%" /\ \A m \in (k + 1)..n : b[m] # "%"
  IN SubSeq(b, start, n)

Dots(s) == Cardinality({ k \in 1..Len(s) : s[k] = "." })

\* The type scan accepts the character under src for a ForbidPrecision
\* descriptor.
AcceptsForbidPrecision ==
  /\ phase = "append"
  /\ Examining
  /\ pc' = "find"
  /\ forbid_precision \in flags(args[idx + 1])

\* C26: in a successful parse, the output of a directive whose type argument
\* is a ForbidPrecision descriptor has exactly one '.', the one of the
\* descriptor's .*s: no output directive joins a precision written by the
\* caller to the descriptor's own .*
C26_OnePrecision ==
  /\ [][ AcceptsForbidPrecision
           => /\ Dots(DirectiveText(buf, outpos)) = 0
              /\ Dots(DirectiveText(buf', outpos')) = 1
              /\ \E k \in 1..(outpos' - 2) :
                   SubSeq(buf', k, outpos') \in
                     { <<".", "*", "s">>, <<".", "*", Deref(src)>> } ]_vars
  /\ [](Done /\ tmpl = <<"%", "-", "2", "s">> /\ args = <<"container_of_char">>
          => st = correct /\ Output = <<"%", "-", "2", ".", "*", "s">>)

C26_Witness ==
  /\ Done
  /\ tmpl = <<"%", "-", "2", "s">>
  /\ args = <<"container_of_char">>
  /\ st = correct
  /\ Output = <<"%", "-", "2", ".", "*", "s">>

-----------------------------------------------------------------------------
(* C27 *)

\* The parser is inside a directive, where it tests the capabilities of the
\* current descriptor ('*', '.'), substitutes its spec (?) or compares its
\* type class.
ReadsDescriptor == pc \in {"flags", "field", "digits", "type"}

\* C27: idx is at most N, the position of the sentinel, and the spec and the
\* capabilities of the sentinel are never read: wherever a '*' or
\* ForbidPrecision test, a ? substitution or a type-class comparison is
\* made, the current descriptor is one of the N real descriptors.
C27_SentinelNeverRead ==
  /\ idx \in 0..Len(args)
  /\ ReadsDescriptor => idx < Len(args)
  /\ (pc = "ret" /\ st = format_not_enough_args) => idx = Len(args)

C27_Witness ==
  /\ Done
  /\ tmpl = <<"%", ".", "*", "d">>
  /\ args = <<"int">>
  /\ st = format_not_enough_args
  /\ idx = 1

-----------------------------------------------------------------------------
(* C28 *)

\* C28: on success and on every failure src stays between 0 and the length
\* of the template: a step moves it by at most two characters, all of them
\* characters of the template, and never past the terminator.
C28_SrcWithinTemplate ==
  /\ [](src \in 0..Len(tmpl))
  /\ [](pc = "ret" => st \in Failures \cup {correct} /\ src <= Len(tmpl))
  /\ [][ SamePass
           => /\ src' \in {src, src + 1, src + 2}
              /\ \A p \in src..(src' - 1) : p < Len(tmpl) /\ tmpl[p + 1] # NUL ]_vars

C28_Witness ==
  /\ Done
  /\ tmpl = <<"%", "1">>
  /\ args = <<"int">>
  /\ st = conversion_lacks_type
  /\ src = 2
  /\ src = Len(tmpl)

====
